---- MODULE Spec2Model ----
(***************************************************************************)
(* Model of scripts/fetch.py, the documentation fetcher of the cc-docs     *)
(* skill: sitemap discovery, page enumeration, the retrying content        *)
(* fetchers, the hash based change detection of fetch_docs, the cleanup    *)
(* of obsolete files and the manifest store.                               *)
(*                                                                         *)
(* Strings are sequences of tokens.  A token is "/" or a run of            *)
(* characters holding no "/" ("docs", "a", ".md", ...), so that Python's   *)
(* substring tests on "/"-delimited patterns are substring tests on token  *)
(* sequences.  File contents are records; SHA-256 is an injective map.     *)
(*                                                                         *)
(* The specifications:                                                     *)
(*   Spec          runs of main() in fetch mode, one after the other       *)
(*   SpecFetch     one call of fetch_markdown_content / fetch_changelog,   *)
(*                 with the requests and sleeps it makes recorded          *)
(*   SpecMain      runs of main() in both modes, with and without          *)
(*                 --update-skill, the sitemap servers down                *)
(*   SpecTrace     runs in fetch mode, the sitemap servers down, with the  *)
(*                 requests and backoff sleeps of each run recorded        *)
(*   SpecCrash     runs in fetch mode that may be killed, starting from    *)
(*                 an installation left by a completed run                 *)
(*   SpecCollide   runs in fetch mode against a sitemap whose pages        *)
(*                 derive the same filename                                *)
(*   SpecFilename  url_to_safe_filename applied to a path                  *)
(*   SpecUpdate    main() with --validate --update-skill, pass after pass  *)
(***************************************************************************)
EXTENDS Integers, Sequences, FiniteSets, TLC

VARIABLES
    disk,                \* references directory: filename -> content
    manifest,            \* persisted docs_manifest.json
    clock,               \* datetime.now(), one tick per run
    pc,                  \* position of main()/fetch_docs()
    prev,                \* fetch_docs: manifest (as loaded), its "files"
    new_manifest,        \* fetch_docs: new_manifest["files"]
    successful,          \* fetch_docs: successful
    failed,              \* fetch_docs: failed
    failed_pages,        \* fetch_docs: failed_pages
    fetched_files,       \* fetch_docs: fetched_files
    sitemap_url,         \* fetch_docs: sitemap_url (<<>> is None)
    base_url,            \* fetch_docs: base_url
    documentation_pages, \* fetch_docs: documentation_pages
    i,                   \* fetch_docs: index of the page being processed
    attempt,             \* loop variable of the fetcher call in progress
    exit_code,           \* exit status of the process, once pc = "exited"
    attempted,           \* history: pages handed to fetch_markdown_content
    writes,              \* history: filenames written by save_markdown_file
    last,                \* history: the last change-detection decision
    disk0,               \* history: the references directory at run start
    discovery,           \* history: the responses to the sitemap requests
    results,             \* history: whether each fetcher call returned content
    env,                 \* the setting explored: the site served, the options
    skill,               \* SKILL.md, the index document
    args,                \* main: args
    validation,          \* main: validation, the report of validate_skill_md
    hist,                \* history: the requests and sleeps of the run
    interrupted,         \* history: the run before this one was killed
    fn,                  \* SpecFilename: a path and the filename derived from it
    fc                   \* SpecFetch: the single fetcher call, with its trace

runvars == <<disk, manifest, clock, pc, prev, new_manifest, successful, failed,
             failed_pages, fetched_files, sitemap_url, base_url,
             documentation_pages, i, attempt, exit_code, attempted, writes,
             last, disk0, discovery, results, env, skill, args, validation,
             hist, interrupted, fn>>

vars == <<runvars, fc>>

-----------------------------------------------------------------------------
(* Bounds of the model *)

\* number of runs of the program that are explored
MaxRuns == 2

\* how many entries of the hardcoded fallback list the model keeps
MaxFallback == 1

-----------------------------------------------------------------------------
(* Program constants *)

MAX_RETRIES == 3

RETRY_DELAY == 2

MAX_RETRY_DELAY == 30

\* response.headers.get('Retry-After', 60)
DEFAULT_RETRY_AFTER == 60

\* validate_markdown_content: minimum stripped length
MIN_CONTENT_LEN == 50

\* validate_markdown_content: minimum number of lines with an indicator
MIN_INDICATORS == 3

\* fetch_changelog: minimum stripped length
MIN_CHANGELOG_LEN == 100

\* len(header) and len(header.strip()) of the changelog header literal
HEADER_LEN == 110

HEADER_STRIPPED_LEN == 108

MANIFEST_FILE == <<"docs_manifest.json">>

README_FILE == <<"README", ".md">>

CHANGELOG_FILE == <<"changelog", ".md">>

SITEMAP_URLS ==
    << <<"https:", "//", "code.claude.com", "/", "docs", "/", "sitemap.xml">>,
       <<"https:", "//", "docs.anthropic.com", "/", "sitemap.xml">> >>

FALLBACK_BASE_URL == <<"https:", "//", "code.claude.com">>

NoUrl == <<>>

-----------------------------------------------------------------------------
(* The settings the specifications explore.  site: what the sitemap servers *)
(* serve ("full": any of the responses below; "down": network errors only;  *)
(* "collide": a sitemap whose pages derive the same filename).              *)
(* update_skill: the values of --update-skill that are given.  trace:       *)
(* whether the requests and sleeps of a run are recorded in hist.           *)

EnvSpec == [site |-> "full", update_skill |-> {FALSE}, trace |-> FALSE]

EnvMain == [site |-> "down", update_skill |-> BOOLEAN, trace |-> FALSE]

EnvTrace == [site |-> "down", update_skill |-> {FALSE}, trace |-> TRUE]

EnvCrash == [site |-> "full", update_skill |-> {FALSE}, trace |-> FALSE]

EnvCollide == [site |-> "collide", update_skill |-> {FALSE}, trace |-> FALSE]

EnvUpdate == [site |-> "down", update_skill |-> {TRUE}, trace |-> FALSE]

-----------------------------------------------------------------------------
(* Strings as token sequences *)

\* Python: sub in s
Contains(s, sub) ==
    \E k \in 1..(Len(s) - Len(sub) + 1) : SubSeq(s, k, k + Len(sub) - 1) = sub

FirstIndex(s, sub) ==
    CHOOSE k \in 1..(Len(s) - Len(sub) + 1) :
        /\ SubSeq(s, k, k + Len(sub) - 1) = sub
        /\ \A j \in 1..(k - 1) : SubSeq(s, j, j + Len(sub) - 1) # sub

\* Python: s.split(sub)[-1], the separators found left to right
RECURSIVE SplitLast(_, _)
SplitLast(s, sub) ==
    IF Contains(s, sub)
    THEN SplitLast(SubSeq(s, FirstIndex(s, sub) + Len(sub), Len(s)), sub)
    ELSE s

\* Python: s.endswith(tok), tok one token
EndsWith(s, tok) == Len(s) > 0 /\ s[Len(s)] = tok

\* Python: s.replace('/', '__')
ReplaceSlash(s) == [k \in 1..Len(s) |-> IF s[k] = "/" THEN "__" ELSE s[k]]

\* the order of Python's str comparison on the tokens of the model
TokRank(t) ==
    CASE t = " " -> 1
      [] t = ".html" -> 2
      [] t = ".json" -> 3
      [] t = ".md" -> 4
      [] t = "/" -> 5
      [] t = "//" -> 6
      [] t = "README" -> 7
      [] t = "<backtick>" -> 8
      [] t = "a" -> 9
      [] t = "api" -> 10
      [] t = "b" -> 11
      [] t = "blog" -> 12
      [] t = "changelog" -> 13
      [] t = "claude-code" -> 14
      [] t = "docs" -> 15
      [] t = "docs_manifest.json" -> 16
      [] t = "en" -> 17
      [] t = "overview" -> 18
      [] t = "setup" -> 19
      [] t = "x" -> 20
      [] OTHER -> 21

RECURSIVE StrLess(_, _)
StrLess(s, t) ==
    IF t = <<>> THEN FALSE
    ELSE IF s = <<>> THEN TRUE
    ELSE IF s[1] = t[1] THEN StrLess(Tail(s), Tail(t))
    ELSE TokRank(s[1]) < TokRank(t[1])

\* Python: sorted(list(S))
RECURSIVE Sorted(_)
Sorted(S) ==
    IF S = {} THEN <<>>
    ELSE LET m == CHOOSE x \in S : \A y \in S \ {x} : StrLess(x, y)
         IN <<m>> \o Sorted(S \ {m})

Range(s) == {s[k] : k \in 1..Len(s)}

EmptyMap == [x \in {} |-> x]

\* d[k] = v, d a Python dict
Put(d, k, v) == [x \in (DOMAIN d) \cup {k} |-> IF x = k THEN v ELSE d[x]]

\* del d[k] for every k of ks
Drop(d, ks) == [x \in (DOMAIN d) \ ks |-> d[x]]

-----------------------------------------------------------------------------
(* Filename derivation *)

FILENAME_PREFIXES ==
    << <<"/", "docs", "/", "en", "/">>,
       <<"/", "en", "/", "docs", "/", "claude-code", "/">>,
       <<"/", "docs", "/", "claude-code", "/">>,
       <<"/", "claude-code", "/">> >>

\* the part of url_path the filename is made of (lines 95-103)
StripPrefix(url_path) ==
    LET hits == {k \in 1..Len(FILENAME_PREFIXES) :
                    Contains(url_path, FILENAME_PREFIXES[k])}
    IN IF hits # {}
       THEN LET k == CHOOSE x \in hits : \A y \in hits : x <= y
            IN SplitLast(url_path, FILENAME_PREFIXES[k])
       ELSE IF Contains(url_path, <<"claude-code", "/">>)
       THEN SplitLast(url_path, <<"claude-code", "/">>)
       ELSE url_path

url_to_safe_filename(url_path) ==
    LET path == StripPrefix(url_path)
    IN IF ~ Contains(path, <<"/">>)
       THEN IF EndsWith(path, ".md") THEN path ELSE path \o <<".md">>
       ELSE LET safe_name == ReplaceSlash(path)
            IN IF EndsWith(safe_name, ".md") THEN safe_name
               ELSE safe_name \o <<".md">>

\* fn: the path given to url_to_safe_filename and, once derived, its result
NoDerivation == [path |-> <<>>, name |-> <<>>, done |-> FALSE]

\* the paths url_to_safe_filename is applied to: a head (a recognized prefix,
\* or none), a middle that may hold a prefix again, a tail
PATH_HEADS ==
    Range(FILENAME_PREFIXES)
    \cup { <<>>, <<"/">>, <<"/", "x", "/">>, <<"claude-code", "/">> }

PATH_MIDDLES ==
    { <<>>, <<"a", "/">>, <<"a", "/", "docs", "/", "en", "/">>,
      <<"a", "/", "claude-code", "/">> }

PATH_TAILS == { <<>>, <<"b">>, <<"b", ".md">>, <<"b", "/", "c">> }

PATHS == {h \o m \o t : h \in PATH_HEADS, m \in PATH_MIDDLES, t \in PATH_TAILS}

\* url_to_safe_filename(fn.path) is called and returns
DeriveFilename ==
    /\ ~ fn.done
    /\ fn' = [fn EXCEPT !.name = url_to_safe_filename(fn.path), !.done = TRUE]
    /\ UNCHANGED <<disk, manifest, clock, pc, prev, new_manifest, successful,
                   failed, failed_pages, fetched_files, sitemap_url, base_url,
                   documentation_pages, i, attempt, exit_code, attempted, writes,
                   last, disk0, discovery, results, env, skill, args, validation,
                   hist, interrupted, fc>>

-----------------------------------------------------------------------------
(* Sitemap discovery and page enumeration *)

Site(host, path) == <<"https:", "//", host>> \o path

\* urlparse(url): scheme://netloc and path
UrlBase(url) == SubSeq(url, 1, 3)

UrlPath(url) == SubSeq(url, 4, Len(url))

U_A == Site("code.claude.com", <<"/", "docs", "/", "en", "/", "a">>)

U_README == Site("code.claude.com", <<"/", "docs", "/", "en", "/", "README", ".html">>)

U_API == Site("code.claude.com", <<"/", "docs", "/", "en", "/", "api", "/", "x">>)

U_BLOG == Site("code.claude.com", <<"/", "blog", "/", "x">>)

U_OLD_A == Site("docs.anthropic.com", <<"/", "en", "/", "docs", "/", "claude-code", "/", "a">>)

U_OLD_A_SLASH == U_OLD_A \o <<"/">>

U_CHANGELOG == Site("code.claude.com", <<"/", "docs", "/", "en", "/", "changelog">>)

\* A sitemap document: the <loc> texts found under namespaced <url> elements
\* (ns) and the non-namespaced <loc> texts (plain).  NoDoc has no <loc>.
NoDoc == [ns |-> <<>>, plain |-> <<>>]

\* the documents the two sitemap URLs may serve
SitemapDocs(url) ==
    IF url = SITEMAP_URLS[1]
    THEN { [ns |-> <<U_A, U_README, U_API>>, plain |-> <<>>],
           [ns |-> <<>>, plain |-> <<U_BLOG, U_API>>],
           NoDoc }
    ELSE { [ns |-> <<U_OLD_A_SLASH, U_OLD_A>>, plain |-> <<>>] }

\* a sitemap listing /docs/en/a and /en/docs/claude-code/a, which both derive
\* a.md, and /docs/en/changelog, which derives the changelog's changelog.md
CollidingDoc == [ns |-> <<U_A, U_OLD_A, U_CHANGELOG>>, plain |-> <<>>]

\* what a GET of a sitemap URL may give: a network error, an error status,
\* a 200 whose body is not XML, a 200 with a sitemap document
SitemapResponses(url) ==
    IF env.site = "down"
    THEN { [kind |-> "neterr", status |-> 0, parsable |-> FALSE, doc |-> NoDoc] }
    ELSE IF env.site = "collide"
    THEN { [kind |-> "http", status |-> 200, parsable |-> TRUE,
            doc |-> CollidingDoc] }
    ELSE
    { [kind |-> "neterr", status |-> 0, parsable |-> FALSE, doc |-> NoDoc],
      [kind |-> "http", status |-> 503, parsable |-> FALSE, doc |-> NoDoc],
      [kind |-> "http", status |-> 200, parsable |-> FALSE, doc |-> NoDoc] }
    \cup { [kind |-> "http", status |-> 200, parsable |-> TRUE, doc |-> d] :
              d \in SitemapDocs(url) }

\* lines 129-139 and 169-177: namespaced lookup first, then plain
Locs(doc) == IF doc.ns # <<>> THEN doc.ns ELSE doc.plain

\* one candidate of discover_sitemap_and_base_url (lines 117-148)
CandidateOk(resp) ==
    /\ resp.kind = "http"
    /\ resp.status = 200
    /\ resp.parsable
    /\ Locs(resp.doc) # <<>>

\* mutant: a sitemap without any <loc> is taken as found
discover_sitemap_and_base_url_NoLocCheck(resps) ==
    LET good == {k \in 1..Len(SITEMAP_URLS) :
                    /\ resps[k].kind = "http"
                    /\ resps[k].status = 200
                    /\ resps[k].parsable}
    IN IF good = {}
       THEN [raised |-> TRUE, sitemap_url |-> NoUrl, base_url |-> NoUrl]
       ELSE LET k == CHOOSE x \in good : \A y \in good : x <= y
            IN [raised |-> FALSE,
                sitemap_url |-> SITEMAP_URLS[k],
                base_url |-> IF Locs(resps[k].doc) = <<>> THEN NoUrl
                             ELSE UrlBase(Locs(resps[k].doc)[1])]

\* discover_sitemap_and_base_url; resps[k] answers the GET of SITEMAP_URLS[k]
discover_sitemap_and_base_url(resps) ==
    LET good == {k \in 1..Len(SITEMAP_URLS) : CandidateOk(resps[k])}
    IN IF good = {}
       THEN [raised |-> TRUE, sitemap_url |-> NoUrl, base_url |-> NoUrl]
       ELSE LET k == CHOOSE x \in good : \A y \in good : x <= y
            IN [raised |-> FALSE,
                sitemap_url |-> SITEMAP_URLS[k],
                base_url |-> UrlBase(Locs(resps[k].doc)[1])]

get_fallback_pages ==
    << <<"/", "docs", "/", "en", "/", "overview">>,
       <<"/", "docs", "/", "en", "/", "setup">>,
       <<"/", "docs", "/", "en", "/", "quickstart">>,
       <<"/", "docs", "/", "en", "/", "memory">>,
       <<"/", "docs", "/", "en", "/", "common-workflows">>,
       <<"/", "docs", "/", "en", "/", "mcp">>,
       <<"/", "docs", "/", "en", "/", "github-actions">>,
       <<"/", "docs", "/", "en", "/", "troubleshooting">>,
       <<"/", "docs", "/", "en", "/", "security">>,
       <<"/", "docs", "/", "en", "/", "settings">>,
       <<"/", "docs", "/", "en", "/", "hooks">>,
       <<"/", "docs", "/", "en", "/", "costs">>,
       <<"/", "docs", "/", "en", "/", "monitoring-usage">> >>

\* the fallback list as the model explores it: its first MaxFallback entries
FallbackPages == SubSeq(get_fallback_pages, 1, MaxFallback)

ENGLISH_PATTERNS ==
    { <<"/", "docs", "/", "en", "/">>,
      <<"/", "en", "/", "docs", "/", "claude-code", "/">> }

SKIP_PATTERNS ==
    { <<"/", "tool-use", "/">>, <<"/", "examples", "/">>, <<"/", "legacy", "/">>,
      <<"/", "api", "/">>, <<"/", "reference", "/">> }

\* lines 189-192
NormalizePath(path) ==
    IF EndsWith(path, ".html") THEN SubSeq(path, 1, Len(path) - 1)
    ELSE IF EndsWith(path, "/") THEN SubSeq(path, 1, Len(path) - 1)
    ELSE path

\* lines 181-198: the pages found in a list of sitemap URLs
EnumeratePages(urls) ==
    Sorted({ NormalizePath(UrlPath(u)) :
               u \in { v \in Range(urls) :
                         /\ \E p \in ENGLISH_PATTERNS : Contains(v, p)
                         /\ ~ \E sk \in SKIP_PATTERNS :
                                Contains(NormalizePath(UrlPath(v)), sk) } })

\* mutant: the fallback list also replaces an empty enumeration
discover_claude_code_pages_FallbackOnEmpty(resp) ==
    IF resp.kind = "http" /\ resp.status = 200 /\ resp.parsable
       /\ EnumeratePages(Locs(resp.doc)) # <<>>
    THEN EnumeratePages(Locs(resp.doc))
    ELSE FallbackPages

\* discover_claude_code_pages; resp answers its GET of the sitemap
discover_claude_code_pages(resp) ==
    IF resp.kind = "http" /\ resp.status = 200 /\ resp.parsable
    THEN EnumeratePages(Locs(resp.doc))
    ELSE FallbackPages

-----------------------------------------------------------------------------
(* HTTP responses to a content request *)

\* the texts a server may hold
Contents == {"v1", "v2"}

\* the texts it may hold for one page: /docs/en/a is edited between runs
ContentsOf(page_path) ==
    IF page_path = UrlPath(U_A) THEN Contents ELSE {"v1"}

\* a response body, by what the validators read of it: whether it starts with
\* <!DOCTYPE or holds <html in its first 100 characters, its length, its
\* stripped length, how many of its first 50 lines hold a markdown indicator
Markdown(c) == [id |-> c, html |-> FALSE, len |-> 60, slen |-> 60, ind |-> 3]

HtmlBody == [id |-> "html", html |-> TRUE, len |-> 60, slen |-> 60, ind |-> 3]

ShortBody == [id |-> "short", html |-> FALSE, len |-> 52, slen |-> 49, ind |-> 3]

PlainBody == [id |-> "plain", html |-> FALSE, len |-> 60, slen |-> 60, ind |-> 2]

NoBody == [id |-> "", html |-> FALSE, len |-> 0, slen |-> 0, ind |-> 0]

Bodies == {Markdown(c) : c \in Contents} \cup {HtmlBody, ShortBody, PlainBody}

\* the Retry-After header of a 429: absent, a number of seconds, an HTTP date
NoHeader == [present |-> FALSE, numeric |-> FALSE, secs |-> 0]

RetryAfterHeaders ==
    { NoHeader,
      [present |-> TRUE, numeric |-> TRUE, secs |-> 5],
      [present |-> TRUE, numeric |-> FALSE, secs |-> 0] }

\* what session.get may give: a RequestException (connection error, timeout),
\* or a response with a status, headers and a body
ResponsesWith(bodies) ==
    { [kind |-> "neterr", status |-> 0, retry_after |-> NoHeader, body |-> NoBody],
      [kind |-> "http", status |-> 500, retry_after |-> NoHeader, body |-> NoBody] }
    \cup { [kind |-> "http", status |-> 429, retry_after |-> h, body |-> NoBody] :
              h \in RetryAfterHeaders }
    \cup { [kind |-> "http", status |-> 200, retry_after |-> NoHeader, body |-> b] :
              b \in bodies }

Responses == ResponsesWith(Bodies)

\* the responses to the request for one page, and for the changelog
PageResponses(page_path) ==
    ResponsesWith({b \in Bodies : b.id \notin Contents \ ContentsOf(page_path)})

ChangelogResponses ==
    ResponsesWith({b \in Bodies : b.id \notin Contents \ {"v1"}})

\* random.uniform(0.5, 1.0), in tenths
Jitter == 5..10

\* the content of a file: the text of a body, under the changelog header or not
FileContent(header, text) == [header |-> header, text |-> text]

NoContent == FileContent(FALSE, "")

\* hashlib.sha256(content.encode('utf-8')).hexdigest(); <<>> is the hash ""
sha256(content) == <<content.header, content.text>>

NoHash == <<>>

-----------------------------------------------------------------------------
(* The content fetchers *)

\* validate_markdown_content: TRUE when it raises no ValueError
validate_markdown_content(body) ==
    /\ ~ (body.len = 0 \/ body.html)
    /\ ~ (body.slen < MIN_CONTENT_LEN)
    /\ ~ (body.ind < MIN_INDICATORS)

\* fetch_changelog, lines 312-315: TRUE when header + content is long enough
ChangelogLongEnough(body) ==
    LET n == IF body.slen = 0 THEN HEADER_STRIPPED_LEN ELSE HEADER_LEN + body.slen
    IN ~ (n < MIN_CHANGELOG_LEN)

\* int(response.headers.get('Retry-After', 60)); the caller checks numeric
WaitTime(h) == IF h.present THEN h.secs ELSE DEFAULT_RETRY_AFTER

\* mutant: the delay does not grow
BackoffDelay_NoDoubling(att) == RETRY_DELAY

\* min(RETRY_DELAY * (2 ** attempt), MAX_RETRY_DELAY)
BackoffDelay(att) ==
    IF RETRY_DELAY * (2 ^ att) < MAX_RETRY_DELAY
    THEN RETRY_DELAY * (2 ^ att) ELSE MAX_RETRY_DELAY

\* mutant: a backoff sleep follows every transport failure
MayRetry_Always(att) == TRUE

\* attempt < MAX_RETRIES - 1: the failure is retried after a backoff sleep
MayRetry(att) == att < MAX_RETRIES - 1

\* The outcome of one iteration of  for attempt in range(MAX_RETRIES):
\*   status  "running" (the loop goes on), "returned" (filename, content),
\*           "raised" (an exception leaves the function), "none" (the loop
\*           ran out and the function returned None)
\*   sleeps  the time.sleep calls of the iteration: why, and the delay in
\*           seconds before jitter
Outcome(status, att, content, sleeps) ==
    [status |-> status, attempt |-> att, content |-> content, sleeps |-> sleeps]

\* continue / the end of an iteration: the next value of range(MAX_RETRIES)
NextIteration(att, sleeps) ==
    IF att + 1 < MAX_RETRIES
    THEN Outcome("running", att + 1, NoContent, sleeps)
    ELSE Outcome("none", att + 1, NoContent, sleeps)

\* lines 259-263 and 297-300
RateLimited(att, h) ==
    IF h.present /\ ~ h.numeric
    THEN Outcome("raised", att, NoContent, <<>>)
    ELSE NextIteration(att, << [why |-> "rate", delay |-> WaitTime(h)] >>)

\* lines 272-279 and 320-326
TransportFailure(att) ==
    IF MayRetry(att)
    THEN NextIteration(att, << [why |-> "backoff", delay |-> BackoffDelay(att)] >>)
    ELSE Outcome("raised", att, NoContent, <<>>)

\* response.raise_for_status() raises
ErrorStatus(resp) == resp.status >= 400 /\ resp.status < 600

\* mutant: a body that fails validation is retried like a transport failure
MarkdownAttempt_RetryInvalid(att, resp) ==
    IF resp.kind = "neterr" THEN TransportFailure(att)
    ELSE IF resp.status = 429 THEN RateLimited(att, resp.retry_after)
    ELSE IF ErrorStatus(resp) THEN TransportFailure(att)
    ELSE IF validate_markdown_content(resp.body)
    THEN Outcome("returned", att, FileContent(FALSE, resp.body.id), <<>>)
    ELSE TransportFailure(att)

\* one iteration of the loop of fetch_markdown_content (lines 255-283)
MarkdownAttempt(att, resp) ==
    IF resp.kind = "neterr" THEN TransportFailure(att)
    ELSE IF resp.status = 429 THEN RateLimited(att, resp.retry_after)
    ELSE IF ErrorStatus(resp) THEN TransportFailure(att)
    ELSE IF validate_markdown_content(resp.body)
    THEN Outcome("returned", att, FileContent(FALSE, resp.body.id), <<>>)
    ELSE Outcome("raised", att, NoContent, <<>>)

\* one iteration of the loop of fetch_changelog (lines 293-326)
ChangelogAttempt(att, resp) ==
    IF resp.kind = "neterr" THEN TransportFailure(att)
    ELSE IF resp.status = 429 THEN RateLimited(att, resp.retry_after)
    ELSE IF ErrorStatus(resp) THEN TransportFailure(att)
    ELSE IF ChangelogLongEnough(resp.body)
    THEN Outcome("returned", att, FileContent(TRUE, resp.body.id), <<>>)
    ELSE Outcome("raised", att, NoContent, <<>>)

FetchAttempt(kind, att, resp) ==
    IF kind = "page" THEN MarkdownAttempt(att, resp)
    ELSE ChangelogAttempt(att, resp)

\* the argument of time.sleep, in tenths of a second: wait_time (lines 262,
\* 299), delay * random.uniform(0.5, 1.0) (lines 276-277, 324)
SleepTenths(sleep, jit) ==
    IF sleep.why = "backoff" THEN sleep.delay * jit ELSE sleep.delay * 10

-----------------------------------------------------------------------------
(* SpecFetch: one call of a fetcher, its responses and sleeps recorded *)

FcIdle ==
    [kind |-> "idle", status |-> "idle", attempt |-> 0, content |-> NoContent,
     responses |-> <<>>, sleeps |-> <<>>]

\* fetch_markdown_content(...) or fetch_changelog(...) is called
FcCall ==
    /\ fc.status = "idle"
    /\ \E kind \in {"page", "changelog"} :
          fc' = [FcIdle EXCEPT !.kind = kind, !.status = "running"]
    /\ UNCHANGED runvars

\* one iteration of its loop: a request, the response, what the code does
FcIteration ==
    /\ fc.status = "running"
    /\ \E resp \in Responses, jit \in Jitter :
          LET o == FetchAttempt(fc.kind, fc.attempt, resp)
              slept == [k \in 1..Len(o.sleeps) |->
                          [why |-> o.sleeps[k].why, delay |-> o.sleeps[k].delay,
                           tenths |-> SleepTenths(o.sleeps[k], jit),
                           after |-> Len(fc.responses) + 1]]
          IN fc' = [fc EXCEPT !.status = o.status,
                              !.attempt = o.attempt,
                              !.content = o.content,
                              !.responses = Append(@, resp),
                              !.sleeps = @ \o slept]
    /\ UNCHANGED runvars

-----------------------------------------------------------------------------
(* The manifest store and the references directory *)

NoMeta ==
    [last_fetch |-> 0, successful |-> 0, failed |-> 0, failed_pages |-> <<>>,
     sitemap_url |-> NoUrl, base_url |-> NoUrl]

\* no docs_manifest.json in the references directory
NoManifest ==
    [exists |-> FALSE, files |-> EmptyMap, last_updated |-> 0,
     fetch_metadata |-> NoMeta]

\* load_manifest()["files"]
load_manifest == IF manifest.exists THEN manifest.files ELSE EmptyMap

\* mutant: the entries of the persisted manifest are kept (an incremental save)
save_manifest_Incremental(files, meta) ==
    [exists |-> TRUE,
     files |-> [f \in (DOMAIN files) \cup (DOMAIN manifest.files) |->
                  IF f \in DOMAIN files THEN files[f] ELSE manifest.files[f]],
     last_updated |-> clock,
     fetch_metadata |-> meta]

\* save_manifest(new_manifest), new_manifest with its fetch_metadata
save_manifest(files, meta) ==
    [exists |-> TRUE, files |-> files, last_updated |-> clock,
     fetch_metadata |-> meta]

\* manifest.get("files", {}).get(filename, {}).get("hash", "")
OldHash(filename) ==
    IF filename \in DOMAIN prev THEN prev[filename].hash ELSE NoHash

\* old_entry.get("last_updated", datetime.now().isoformat())
OldLastUpdated(filename) ==
    IF filename \in DOMAIN prev THEN prev[filename].last_updated ELSE clock

\* mutant: every fetched file counts as changed
content_has_changed_Always(content, old_hash) == TRUE

content_has_changed(content, old_hash) == sha256(content) # old_hash

\* lines 456-461 and 486-491: whether the file is written, and the hash and
\* last_updated of its new manifest entry
ChangeDetection(filename, content) ==
    IF content_has_changed(content, OldHash(filename))
    THEN [write |-> TRUE, hash |-> sha256(content), last_updated |-> clock]
    ELSE [write |-> FALSE, hash |-> OldHash(filename),
          last_updated |-> OldLastUpdated(filename)]

PROTECTED_FILES == {MANIFEST_FILE, README_FILE}

\* mutant: protected files are removed like the others
cleanup_old_files_Unprotected(current_files, previous) ==
    Drop(disk, (DOMAIN previous) \ current_files)

\* cleanup_old_files(current_files, manifest): the directory it leaves
cleanup_old_files(current_files, previous) ==
    LET files_to_remove == (DOMAIN previous) \ current_files
    IN Drop(disk, {f \in files_to_remove : f \notin PROTECTED_FILES})

-----------------------------------------------------------------------------
(* The index document SKILL.md and its reconciliation with the fetched files *)

\* SKILL.md as a sequence of items: "ref", text holding references/<name>;
\* "header", the line ### Uncategorized (New); "text", any other text;
\* "blank", whitespace
Ref(name) == [kind |-> "ref", name |-> name]

TextItem == [kind |-> "text", name |-> <<>>]

BlankItem == [kind |-> "blank", name |-> <<>>]

UncategorizedHeader == [kind |-> "header", name |-> <<>>]

NoSkill == [exists |-> FALSE, items |-> <<>>]

SkillDoc(items) == [exists |-> TRUE, items |-> items]

\* the tokens [^`\s] does not match: a blank, a backtick
REFERENCE_STOPS == {" ", "<backtick>"}

\* what the pattern references/([^`\s]+\.(?:md|json)) captures in the text
\* references/<name>: of the tokens of name before the first backtick or
\* whitespace, the longest beginning that ends in .md or .json and holds a
\* character before that ending; nothing if there is none
CapturedReference(name) ==
    LET stops == {k \in 1..Len(name) : name[k] \in REFERENCE_STOPS}
        run == IF stops = {} THEN name
               ELSE SubSeq(name, 1, (CHOOSE k \in stops : \A j \in stops : k <= j) - 1)
        ends == {k \in 1..Len(run) :
                    \/ k >= 2 /\ run[k] \in {".md", ".json"}
                    \/ run[k] = MANIFEST_FILE[1]}
    IN IF ends = {} THEN {}
       ELSE {SubSeq(run, 1, CHOOSE k \in ends : \A j \in ends : j <= k)}

get_skill_md_references ==
    IF ~ skill.exists THEN {}
    ELSE UNION { CapturedReference(skill.items[k].name) :
                   k \in { j \in 1..Len(skill.items) :
                             skill.items[j].kind = "ref" } }

RECONCILE_EXCLUDED == {README_FILE, MANIFEST_FILE}

\* mutant: README.md and docs_manifest.json are reconciled like the others
validate_skill_md_NoExclusion(fetched) ==
    LET referenced == get_skill_md_references
    IN [orphaned |-> Sorted(referenced \ fetched),
        unreferenced |-> Sorted(fetched \ referenced)]

validate_skill_md(fetched) ==
    LET referenced == get_skill_md_references
    IN [orphaned |-> Sorted((referenced \ fetched) \ RECONCILE_EXCLUDED),
        unreferenced |-> Sorted((fetched \ referenced) \ RECONCILE_EXCLUDED)]

NoValidation == [orphaned |-> <<>>, unreferenced |-> <<>>]

\* content.rstrip()
RECURSIVE RStrip(_)
RStrip(items) ==
    IF items # <<>> /\ items[Len(items)].kind = "blank"
    THEN RStrip(SubSeq(items, 1, Len(items) - 1))
    ELSE items

\* update_skill_md_uncategorized(new_files): the SKILL.md it leaves, and
\* whether it raised (read_text of a missing SKILL.md)
update_skill_md_uncategorized(new_files) ==
    IF new_files = <<>> THEN [raised |-> FALSE, skill |-> skill]
    ELSE IF ~ skill.exists THEN [raised |-> TRUE, skill |-> skill]
    ELSE LET content == skill.items
             uncategorized_section ==
                 (IF ~ \E k \in 1..Len(content) : content[k].kind = "header"
                  THEN <<UncategorizedHeader>> ELSE <<>>)
                 \o [k \in 1..Len(new_files) |-> Ref(new_files[k])]
         IN [raised |-> FALSE,
             skill |-> SkillDoc(RStrip(content) \o uncategorized_section)]

\* mutant: the unreferenced files are appended without --update-skill
ShouldUpdate_Unasked(a, v) == v.unreferenced # <<>>

\* lines 555-561: whether main() calls update_skill_md_uncategorized
ShouldUpdate(a, v) == v.unreferenced # <<>> /\ a.update_skill

\* lines 549-564: the report and, if asked for, the update of SKILL.md
Reconcile(a, files) ==
    LET v == validate_skill_md(files)
        u == IF ShouldUpdate(a, v) THEN update_skill_md_uncategorized(v.unreferenced)
             ELSE [raised |-> FALSE, skill |-> skill]
    IN [validation |-> v, skill |-> u.skill, raised |-> u.raised]

\* lines 535-536: the *.md and *.json files of the references directory
ExistingFiles ==
    {f \in DOMAIN disk : EndsWith(f, ".md") \/ EndsWith(f, ".json")}
    \cup (IF manifest.exists THEN {MANIFEST_FILE} ELSE {})

NoArgs == [validate |-> FALSE, update_skill |-> FALSE]

\* the index documents a run may find
SKILL_DOCS ==
    { NoSkill,
      SkillDoc(<< TextItem, Ref(<<"overview", ".md">>), Ref(<<"b", ".md">>),
                  Ref(<<"notes", ".txt">>), Ref(README_FILE), BlankItem >>),
      SkillDoc(<< Ref(CHANGELOG_FILE), UncategorizedHeader,
                  Ref(<<"overview", ".md">>), Ref(MANIFEST_FILE) >>) }

-----------------------------------------------------------------------------
(* The requests and sleeps of a run, recorded when env.trace *)

NoResponse ==
    [kind |-> "none", status |-> 0, retry_after |-> NoHeader, body |-> NoBody]

\* requests: the content requests of the run; call, att, resp: the call that
\* made the last of them, its attempt, the response; call_requests and
\* backoffs: the requests and backoff sleeps of that call so far
NoHist(on) ==
    [on |-> on, requests |-> 0, call |-> "none", att |-> 0,
     resp |-> NoResponse, call_requests |-> 0, backoffs |-> 0]

Traced(h, kind, att, resp, o) ==
    IF ~ h.on THEN h
    ELSE [on |-> TRUE,
          requests |-> h.requests + 1,
          call |-> kind,
          att |-> att,
          resp |-> resp,
          call_requests |-> IF att = 0 THEN 1 ELSE h.call_requests + 1,
          backoffs |-> (IF att = 0 THEN 0 ELSE h.backoffs)
                       + Cardinality({k \in 1..Len(o.sleeps) :
                                         o.sleeps[k].why = "backoff"})]

-----------------------------------------------------------------------------
(* Spec: runs of main() in fetch mode *)

\* last: the file and content of the last RecordFetched, and whether it
\* called save_markdown_file
NoLast == [valid |-> FALSE, filename |-> <<>>, content |-> NoContent, wrote |-> FALSE]

\* discovery: the responses to the sitemap requests of the run, kept until
\* the page loop starts: cands[k] answered the GET of SITEMAP_URLS[k], enum
\* the GET of the page enumerator (NoSitemapResponse: it was not called)
NoSitemapResponse == [kind |-> "none", status |-> 0, parsable |-> FALSE, doc |-> NoDoc]

NoDiscovery == [cands |-> <<>>, enum |-> NoSitemapResponse]

\* the program is not running; the references directory holds d and the
\* manifest m, SKILL.md is one of docs
Start(e, d, m, docs) ==
    /\ env = e
    /\ skill \in docs
    /\ args = NoArgs
    /\ validation = NoValidation
    /\ hist = NoHist(e.trace)
    /\ interrupted = FALSE
    /\ disk = d
    /\ manifest = m
    /\ clock = 0
    /\ pc = "idle"
    /\ prev = EmptyMap
    /\ new_manifest = EmptyMap
    /\ successful = 0
    /\ failed = 0
    /\ failed_pages = <<>>
    /\ fetched_files = {}
    /\ sitemap_url = NoUrl
    /\ base_url = NoUrl
    /\ documentation_pages = <<>>
    /\ i = 1
    /\ attempt = 0
    /\ exit_code = 0
    /\ attempted = <<>>
    /\ writes = <<>>
    /\ last = NoLast
    /\ disk0 = EmptyMap
    /\ discovery = NoDiscovery
    /\ results = <<>>
    /\ fc = FcIdle

\* a fresh installation: no file, no manifest
Init ==
    /\ Start(EnvSpec, EmptyMap, NoManifest, {SkillDoc(<<Ref(<<"a", ".md">>)>>)})
    /\ fn = NoDerivation

\* main() without --validate, up to the page loop of fetch_docs (lines
\* 415-444): the manifest is loaded, the sitemap discovered, the pages
\* enumerated.  r1 and r2 answer the GETs of the two candidate sitemaps, r3
\* the GET of the page enumerator.
StartRun ==
    /\ pc \in {"idle", "exited", "killed"}
    /\ clock < MaxRuns
    /\ clock' = clock + 1
    /\ \E u \in env.update_skill : args' = [validate |-> FALSE, update_skill |-> u]
    /\ validation' = NoValidation
    /\ hist' = NoHist(env.trace)
    /\ prev' = load_manifest
    /\ new_manifest' = EmptyMap
    /\ successful' = 0
    /\ failed' = 0
    /\ failed_pages' = <<>>
    /\ fetched_files' = {}
    /\ i' = 1
    /\ attempt' = 0
    /\ attempted' = <<>>
    /\ writes' = <<>>
    /\ last' = NoLast
    /\ disk0' = disk
    /\ results' = <<>>
    /\ \E r1 \in SitemapResponses(SITEMAP_URLS[1]),
          r2 \in SitemapResponses(SITEMAP_URLS[2]) :
          LET d == discover_sitemap_and_base_url(<<r1, r2>>)
              su == IF d.raised THEN NoUrl ELSE d.sitemap_url
              asked == IF su = SITEMAP_URLS[1] THEN <<r1>> ELSE <<r1, r2>>
          IN \E r3 \in IF su # NoUrl THEN SitemapResponses(su)
                        ELSE {NoSitemapResponse} :
             LET pages == IF su # NoUrl THEN discover_claude_code_pages(r3)
                          ELSE FallbackPages
             IN
             /\ sitemap_url' = su
             /\ base_url' = IF d.raised THEN FALLBACK_BASE_URL ELSE d.base_url
             /\ discovery' = [cands |-> asked, enum |-> r3]
             /\ documentation_pages' = pages
             /\ pc' = IF pages = <<>> THEN "exited" ELSE "pages"
             /\ exit_code' = IF pages = <<>> THEN 1 ELSE 0
    /\ interrupted' = (pc = "killed")
    /\ UNCHANGED <<disk, manifest, env, skill, fn, fc>>

\* mutant: a fetched file is recorded but not counted
RecordFetched_NotCounted(filename, content, original_url, source) ==
    LET cd == ChangeDetection(filename, content)
    IN /\ disk' = IF cd.write THEN Put(disk, filename, content) ELSE disk
       /\ writes' = IF cd.write THEN Append(writes, filename) ELSE writes
       /\ new_manifest' = Put(new_manifest, filename,
                              [original_url |-> original_url, hash |-> cd.hash,
                               last_updated |-> cd.last_updated, source |-> source])
       /\ fetched_files' = fetched_files \cup {filename}
       /\ successful' = successful
       /\ last' = [valid |-> TRUE, filename |-> filename, content |-> content,
                   wrote |-> writes' # writes]

\* lines 453-470 and 483-501: a fetched file is compared with the loaded
\* manifest, written if it changed, and entered in the new manifest
RecordFetched(filename, content, original_url, source) ==
    LET cd == ChangeDetection(filename, content)
    IN /\ disk' = IF cd.write THEN Put(disk, filename, content) ELSE disk
       /\ writes' = IF cd.write THEN Append(writes, filename) ELSE writes
       /\ new_manifest' = Put(new_manifest, filename,
                              [original_url |-> original_url, hash |-> cd.hash,
                               last_updated |-> cd.last_updated, source |-> source])
       /\ fetched_files' = fetched_files \cup {filename}
       /\ successful' = successful + 1
       /\ last' = [valid |-> TRUE, filename |-> filename, content |-> content,
                   wrote |-> writes' # writes]

\* mutant: a failed page ends the run
AfterPage_Abort(status) ==
    IF status # "returned" THEN "exited"
    ELSE IF i < Len(documentation_pages) THEN "pages" ELSE "changelog"

\* where fetch_docs goes after page i, whose fetch ended with `status`: to
\* the next page, or to the changelog after the last (lines 447, 475-480)
AfterPage(status) == IF i < Len(documentation_pages) THEN "pages" ELSE "changelog"

\* one iteration of the retry loop of fetch_markdown_content for page i and,
\* when the call ends, the rest of the body of the page loop (lines 447-478)
FetchPageStep ==
    /\ pc = "pages"
    /\ \E resp \in PageResponses(documentation_pages[i]) :
          LET page_path == documentation_pages[i]
              o == FetchAttempt("page", attempt, resp)
          IN /\ attempted' = IF attempt = 0 THEN Append(attempted, page_path)
                             ELSE attempted
             /\ hist' = Traced(hist, "page", attempt, resp, o)
             /\ discovery' = NoDiscovery
             /\ IF o.status = "running"
                THEN /\ attempt' = o.attempt
                     /\ UNCHANGED <<disk, writes, new_manifest, fetched_files,
                                    successful, failed, failed_pages, last, i, pc,
                                    results>>
                ELSE /\ attempt' = 0
                     /\ i' = i + 1
                     /\ pc' = AfterPage(o.status)
                     /\ results' = Append(results, [kind |-> "page",
                                      page |-> page_path,
                                      ok |-> o.status = "returned"])
                     /\ IF o.status = "returned"
                        THEN /\ RecordFetched(url_to_safe_filename(page_path),
                                              o.content, base_url \o page_path, "")
                             /\ UNCHANGED <<failed, failed_pages>>
                        ELSE /\ failed' = failed + 1
                             /\ failed_pages' = Append(failed_pages, page_path)
                             /\ UNCHANGED <<disk, writes, new_manifest,
                                            fetched_files, successful, last>>
    /\ UNCHANGED <<manifest, clock, prev, sitemap_url, base_url,
                   documentation_pages, exit_code, disk0, env, skill, args,
                   validation, interrupted, fn, fc>>

CHANGELOG_URL ==
    <<"https:", "//", "github.com", "/", "anthropics", "/", "claude-code", "/",
      "blob", "/", "main", "/", "CHANGELOG", ".md">>

\* one iteration of the retry loop of fetch_changelog and, when the call
\* ends, lines 483-505
FetchChangelogStep ==
    /\ pc = "changelog"
    /\ \E resp \in ChangelogResponses :
          LET o == FetchAttempt("changelog", attempt, resp)
          IN /\ hist' = Traced(hist, "changelog", attempt, resp, o)
             /\ IF o.status = "running"
                THEN /\ attempt' = o.attempt
                     /\ UNCHANGED <<disk, writes, new_manifest, fetched_files,
                                    successful, failed, last, pc, results>>
                ELSE /\ attempt' = 0
                     /\ pc' = "cleanup"
                     /\ results' = Append(results, [kind |-> "changelog",
                                      page |-> NoUrl,
                                      ok |-> o.status = "returned"])
                     /\ IF o.status = "returned"
                        THEN /\ RecordFetched(CHANGELOG_FILE, o.content,
                                              CHANGELOG_URL, "github")
                             /\ UNCHANGED failed
                        ELSE /\ failed' = failed + 1
                             /\ UNCHANGED <<disk, writes, new_manifest,
                                            fetched_files, successful, last>>
    /\ UNCHANGED <<manifest, clock, prev, failed_pages, sitemap_url, base_url,
                   documentation_pages, i, exit_code, attempted, disk0,
                   discovery, env, skill, args, validation, interrupted, fn, fc>>

\* line 508
CleanupOldFiles ==
    /\ pc = "cleanup"
    /\ disk' = cleanup_old_files(fetched_files, prev)
    /\ pc' = "save"
    /\ UNCHANGED <<manifest, clock, prev, new_manifest, successful, failed,
                   failed_pages, fetched_files, sitemap_url, base_url,
                   documentation_pages, i, attempt, exit_code, attempted,
                   writes, last, disk0, discovery, results, env, skill, args,
                   validation, hist, interrupted, fn, fc>>

\* the exit status main() gives after fetch_docs returned (lines 540-544)
ExitStatus(n_successful) == IF n_successful = 0 THEN 1 ELSE 0

\* lines 511-524: the new manifest replaces the persisted one and fetch_docs
\* returns; lines 540-564: main() exits with status 1 if nothing was fetched,
\* and otherwise reconciles SKILL.md with the fetched files
SaveManifest ==
    /\ pc = "save"
    /\ manifest' = save_manifest(new_manifest,
                      [last_fetch |-> clock, successful |-> successful,
                       failed |-> failed, failed_pages |-> failed_pages,
                       sitemap_url |-> sitemap_url, base_url |-> base_url])
    /\ IF ExitStatus(successful) # 0
       THEN /\ exit_code' = ExitStatus(successful)
            /\ UNCHANGED <<skill, validation>>
       ELSE LET r == Reconcile(args, fetched_files)
            IN /\ validation' = r.validation
               /\ skill' = r.skill
               /\ exit_code' = IF r.raised THEN 1 ELSE 0
    /\ pc' = "exited"
    /\ UNCHANGED <<disk, clock, prev, new_manifest, successful, failed,
                   failed_pages, fetched_files, sitemap_url, base_url,
                   documentation_pages, i, attempt, attempted,
                   writes, last, disk0, discovery, results, env, args, hist,
                   interrupted, fn, fc>>

\* main() with --validate (lines 533-537 and 549-564): the files of the
\* references directory are reconciled with SKILL.md; fetch_docs is not called
ValidateRun ==
    /\ pc \in {"idle", "exited", "killed"}
    /\ clock < MaxRuns
    /\ clock' = clock + 1
    /\ \E u \in env.update_skill :
          LET a == [validate |-> TRUE, update_skill |-> u]
              r == Reconcile(a, ExistingFiles)
          IN /\ args' = a
             /\ validation' = r.validation
             /\ skill' = r.skill
             /\ exit_code' = IF r.raised THEN 1 ELSE 0
    /\ pc' = "exited"
    /\ prev' = EmptyMap
    /\ new_manifest' = EmptyMap
    /\ successful' = 0
    /\ failed' = 0
    /\ failed_pages' = <<>>
    /\ fetched_files' = {}
    /\ sitemap_url' = NoUrl
    /\ base_url' = NoUrl
    /\ documentation_pages' = <<>>
    /\ i' = 1
    /\ attempt' = 0
    /\ attempted' = <<>>
    /\ writes' = <<>>
    /\ last' = NoLast
    /\ disk0' = disk
    /\ discovery' = NoDiscovery
    /\ results' = <<>>
    /\ hist' = NoHist(env.trace)
    /\ interrupted' = (pc = "killed")
    /\ UNCHANGED <<disk, manifest, env, fn, fc>>

\* the process is killed while fetch_docs runs: what it wrote stays written,
\* the manifest is not saved
Crash ==
    /\ pc \in {"pages", "changelog", "cleanup", "save"}
    /\ pc' = "killed"
    /\ UNCHANGED <<disk, manifest, clock, prev, new_manifest, successful,
                   failed, failed_pages, fetched_files, sitemap_url, base_url,
                   documentation_pages, i, attempt, exit_code, attempted,
                   writes, last, disk0, discovery, results, env, skill, args,
                   validation, hist, interrupted, fn, fc>>

Next ==
    \/ StartRun
    \/ FetchPageStep
    \/ FetchChangelogStep
    \/ CleanupOldFiles
    \/ SaveManifest

Spec == Init /\ [][Next]_vars

\* main() in both modes, SKILL.md any of SKILL_DOCS, the sitemap servers down
InitMain ==
    /\ Start(EnvMain, EmptyMap, NoManifest, SKILL_DOCS)
    /\ fn = NoDerivation

NextMain ==
    \/ StartRun
    \/ FetchPageStep
    \/ FetchChangelogStep
    \/ CleanupOldFiles
    \/ SaveManifest
    \/ ValidateRun

SpecMain == InitMain /\ [][NextMain]_vars

\* runs in fetch mode with their requests recorded
InitTrace ==
    /\ Start(EnvTrace, EmptyMap, NoManifest, {SkillDoc(<<Ref(<<"a", ".md">>)>>)})
    /\ fn = NoDerivation

SpecTrace == InitTrace /\ [][Next]_vars

\* the references directory and the manifest a completed run at time 0 left:
\* of the pages /docs/en/README and /docs/en/a the first failed, the second
\* and the changelog were fetched
InstalledDisk ==
    Put(Put(EmptyMap, <<"a", ".md">>, FileContent(FALSE, "v1")),
        CHANGELOG_FILE, FileContent(TRUE, "v1"))

InstalledManifest ==
    [exists |-> TRUE,
     files |->
        Put(Put(EmptyMap, <<"a", ".md">>,
                [original_url |-> UrlBase(U_A) \o UrlPath(U_A),
                 hash |-> sha256(FileContent(FALSE, "v1")),
                 last_updated |-> 0, source |-> ""]),
            CHANGELOG_FILE,
            [original_url |-> CHANGELOG_URL,
             hash |-> sha256(FileContent(TRUE, "v1")),
             last_updated |-> 0, source |-> "github"]),
     last_updated |-> 0,
     fetch_metadata |->
        [last_fetch |-> 0, successful |-> 2, failed |-> 1,
         failed_pages |-> << <<"/", "docs", "/", "en", "/", "README">> >>,
         sitemap_url |-> SITEMAP_URLS[1], base_url |-> UrlBase(U_A)]]

\* runs in fetch mode that may be killed, over that installation
InitCrash ==
    /\ Start(EnvCrash, InstalledDisk, InstalledManifest,
             {SkillDoc(<<Ref(<<"a", ".md">>)>>)})
    /\ fn = NoDerivation

NextCrash ==
    \/ StartRun
    \/ FetchPageStep
    \/ FetchChangelogStep
    \/ CleanupOldFiles
    \/ SaveManifest
    \/ Crash

SpecCrash == InitCrash /\ [][NextCrash]_vars

\* runs in fetch mode against the sitemap CollidingDoc
InitCollide ==
    /\ Start(EnvCollide, EmptyMap, NoManifest, {SkillDoc(<<Ref(<<"a", ".md">>)>>)})
    /\ fn = NoDerivation

SpecCollide == InitCollide /\ [][Next]_vars

NextFetch ==
    \/ FcCall
    \/ FcIteration

\* url_to_safe_filename applied to one of PATHS
InitFilename ==
    /\ Start(EnvSpec, EmptyMap, NoManifest, {NoSkill})
    /\ fn \in {[path |-> p, name |-> <<>>, done |-> FALSE] : p \in PATHS}

SpecFilename == InitFilename /\ [][DeriveFilename]_vars

\* names of files the references directory may hold: a.md, .md (the name
\* url_to_safe_filename derives from /docs/en/), "a b.md", a`b.md, x.json,
\* README.md
REFERENCE_FILES ==
    { <<"a", ".md">>, <<".md">>, <<"a", " ", "b", ".md">>,
      <<"a", "<backtick>", "b", ".md">>, <<"x", ".json">>, README_FILE }

\* a references directory holding the files named
ReferencesDir(names) == [f \in names |-> FileContent(FALSE, "v1")]

\* main() with --validate --update-skill, over a references directory that
\* holds any of REFERENCE_FILES, SKILL.md any of SKILL_DOCS
InitUpdate ==
    /\ \E names \in SUBSET REFERENCE_FILES :
          Start(EnvUpdate, ReferencesDir(names), NoManifest, SKILL_DOCS)
    /\ fn = NoDerivation

SpecUpdate == InitUpdate /\ [][ValidateRun]_vars

SpecFetch == Init /\ [][NextFetch]_vars

-----------------------------------------------------------------------------
(* Claims about a run of fetch_docs, checked under Spec *)

\* the run went through the page loop, the changelog, the cleanup and the save
RunCompleted == pc = "exited" /\ documentation_pages # <<>>

\* C1: a fetched page or changelog whose SHA-256 equals the hash the loaded
\* manifest records for its filename is not written; its new manifest entry
\* keeps that hash and the previous last_updated.  With any other hash the
\* file is written and last_updated is the current time.  Either way the
\* filename is a key of the new manifest.
C1_Idempotence ==
    last.valid =>
        LET f == last.filename
            same == f \in DOMAIN prev /\ prev[f].hash = sha256(last.content)
        IN /\ f \in DOMAIN new_manifest
           /\ f \in fetched_files
           /\ IF same
              THEN /\ ~ last.wrote
                   /\ new_manifest[f].hash = prev[f].hash
                   /\ new_manifest[f].last_updated = prev[f].last_updated
              ELSE /\ last.wrote
                   /\ writes[Len(writes)] = f
                   /\ disk[f] = last.content
                   /\ new_manifest[f].hash = sha256(last.content)
                   /\ new_manifest[f].last_updated = clock

\* an unchanged file, first stamped in an earlier run, went through a whole run
C1_Witness ==
    /\ RunCompleted
    /\ last.valid
    /\ last.filename \in DOMAIN prev
    /\ prev[last.filename].hash = sha256(last.content)
    /\ prev[last.filename].last_updated < clock
    /\ \E f \in DOMAIN prev \cap fetched_files : new_manifest[f].hash # prev[f].hash

\* C2: after a run with previous manifest keys P and fetched filenames F,
\* every unprotected filename of P \ F is gone from the references directory,
\* every protected one (docs_manifest.json, README.md) is still there and is
\* no key of the new manifest, and no file outside P \ F was deleted.
C2_Cleanup ==
    RunCompleted =>
        LET gone == (DOMAIN prev) \ fetched_files
            protected == {<<"docs_manifest.json">>, <<"README", ".md">>}
        IN /\ \A f \in gone \ protected : f \notin DOMAIN disk
           /\ \A f \in gone \cap protected :
                 f \in DOMAIN disk /\ f \notin DOMAIN manifest.files
           /\ \A f \in (DOMAIN disk0) \ gone : f \in DOMAIN disk

\* a run that left behind both a protected and an unprotected file
C2_Witness ==
    /\ RunCompleted
    /\ <<"README", ".md">> \in (DOMAIN prev) \ fetched_files
    /\ <<"a", ".md">> \in (DOMAIN prev) \ fetched_files
    /\ <<"a", ".md">> \in DOMAIN disk0
    /\ fetched_files # {}

\* C3: after a completed run the keys of the persisted manifest are the
\* filenames fetched in that run, each names a file of the references
\* directory, and the persisted mapping is the one built in this run: no
\* entry of the previous manifest survives unless fetched again.
C3_ManifestDisk ==
    pc = "exited" =>
        /\ \A f \in DOMAIN manifest.files : f \in DOMAIN disk
        /\ RunCompleted =>
              /\ DOMAIN manifest.files = fetched_files
              /\ manifest.files = new_manifest
              /\ \A f \in (DOMAIN prev) \ fetched_files :
                    f \notin DOMAIN manifest.files
              /\ fetched_files =
                    {url_to_safe_filename(results[k].page) :
                        k \in {j \in 1..Len(results) :
                                  results[j].kind = "page" /\ results[j].ok}}
                    \cup {<<"changelog", ".md">> :
                             k \in {j \in 1..Len(results) :
                                  results[j].kind = "changelog" /\ results[j].ok}}

\* a second run that fetched less than the first, one file of it unchanged
C3_Witness ==
    /\ RunCompleted
    /\ (DOMAIN prev) \ fetched_files # {}
    /\ \E f \in fetched_files \cap DOMAIN prev : f \notin Range(writes)

\* the pages of the run whose fetch failed, in the order of the page list
FailedOf(rs) ==
    LET pages == SelectSeq(rs, LAMBDA r : r.kind = "page" /\ ~ r.ok)
    IN [k \in 1..Len(pages) |-> pages[k].page]

\* C4: every page of the list is attempted once, in enumeration order,
\* whatever the outcomes; a failing page is counted in failed and appended to
\* failed_pages; the pages after it, the changelog fetch, the cleanup and the
\* manifest save still take place.
C4_NoAbort ==
    /\ attempted = SubSeq(documentation_pages, 1, Len(attempted))
    /\ pc = "pages" => Len(attempted) \in {i - 1, i}
    /\ failed_pages = FailedOf(results)
    /\ failed = Cardinality({k \in 1..Len(results) : ~ results[k].ok})
    /\ pc \in {"changelog", "cleanup", "save"} => attempted = documentation_pages
    /\ RunCompleted =>
          /\ attempted = documentation_pages
          /\ Len(results) = Len(documentation_pages) + 1
          /\ results[Len(results)].kind = "changelog"
          /\ \A f \in (DOMAIN prev) \ (fetched_files \cup {<<"README", ".md">>}) :
                f \notin DOMAIN disk
          /\ manifest.exists
          /\ manifest.last_updated = clock
          /\ manifest.fetch_metadata.failed_pages = failed_pages

\* the first of two pages failed and the run went on to its end
C4_Witness ==
    /\ RunCompleted
    /\ Len(documentation_pages) = 2
    /\ failed_pages = <<documentation_pages[1]>>
    /\ results[2].ok
    /\ results[3].ok

\* C5: fetch mode exits with status 1 when the page list is empty or no
\* documentation page was fetched, and with status 0 otherwise.
C5_ExitStatus ==
    pc = "exited" =>
        exit_code =
            IF \/ documentation_pages = <<>>
               \/ ~ \E k \in 1..Len(results) : results[k].kind = "page" /\ results[k].ok
            THEN 1 ELSE 0

\* C9 as claimed: when the enumerator is given a sitemap in which it finds no
\* page, the run uses the fallback list and is not aborted.
NothingEnumerated ==
    /\ discovery.enum.kind = "http"
    /\ discovery.enum.status = 200
    /\ discovery.enum.parsable
    /\ \A u \in Range(Locs(discovery.enum.doc)) :
          \/ ~ \E p \in ENGLISH_PATTERNS : Contains(u, p)
          \/ \E sk \in SKIP_PATTERNS : Contains(NormalizePath(UrlPath(u)), sk)

EnumeratorFailed ==
    /\ discovery.enum.kind # "none"
    /\ ~ (discovery.enum.kind = "http" /\ discovery.enum.status = 200
          /\ discovery.enum.parsable)

CandidateFails(resp) ==
    \/ resp.kind = "neterr"
    \/ resp.status # 200
    \/ ~ resp.parsable
    \/ (resp.doc.ns = <<>> /\ resp.doc.plain = <<>>)

C10_DiscoveryFallback ==
    /\ ( /\ discovery.cands # <<>>
         /\ \A k \in 1..Len(discovery.cands) : CandidateFails(discovery.cands[k]) ) =>
          /\ Len(discovery.cands) = Len(SITEMAP_URLS)
          /\ sitemap_url = NoUrl
          /\ base_url = <<"https:", "//", "code.claude.com">>
          /\ documentation_pages = FallbackPages
          /\ discovery.enum.kind = "none"
          /\ pc = "pages"
    /\ (discovery.cands # <<>> /\ sitemap_url = NoUrl) =>
          \A k \in 1..Len(discovery.cands) : CandidateFails(discovery.cands[k])
    /\ (RunCompleted /\ sitemap_url = NoUrl) =>
          /\ manifest.fetch_metadata.sitemap_url = NoUrl
          /\ manifest.fetch_metadata.base_url = <<"https:", "//", "code.claude.com">>
          /\ manifest.last_updated = clock
          /\ successful = Cardinality({k \in 1..Len(results) : results[k].ok})
          /\ \A k \in 1..Len(results) :
                (results[k].kind = "page" /\ results[k].ok) =>
                   /\ url_to_safe_filename(results[k].page) \in DOMAIN manifest.files
                   /\ results[k].page \notin Range(failed_pages)

\* discovery failed and the run fetched a fallback page
C10_Witness ==
    /\ RunCompleted
    /\ sitemap_url = NoUrl
    /\ documentation_pages = FallbackPages
    /\ \E k \in 1..Len(results) : results[k].kind = "page" /\ results[k].ok

\* C20: when fetch_docs completes over n pages, successful + failed = n + 1;
\* failed_pages is the pages whose fetch failed, in the order of the page
\* list, the changelog never among them; the new manifest has at most
\* `successful` keys; the saved metadata carries these counts.
C20_RunAccounting ==
    RunCompleted =>
        LET n == Len(documentation_pages)
            bad == {k \in 1..n : ~ results[k].ok}
        IN /\ successful + failed = n + 1
           /\ Len(results) = n + 1
           /\ \A k \in 1..n : /\ results[k].kind = "page"
                               /\ results[k].page = documentation_pages[k]
           /\ successful = Cardinality({k \in 1..(n + 1) : results[k].ok})
           /\ Len(failed_pages) = Cardinality(bad)
           /\ \A k \in 1..Len(failed_pages) :
                 \E j \in bad :
                    /\ failed_pages[k] = documentation_pages[j]
                    /\ Cardinality({m \in bad : m < j}) = k - 1
           /\ Cardinality(DOMAIN new_manifest) <= successful
           /\ manifest.fetch_metadata.successful = successful
           /\ manifest.fetch_metadata.failed = failed

\* of two pages the first failed, the second and the changelog were fetched
C20_Witness ==
    /\ RunCompleted
    /\ Len(documentation_pages) = 2
    /\ successful = 2
    /\ failed = 1
    /\ failed_pages = << documentation_pages[1] >>

\* C16: a file of an earlier run (a key of the loaded manifest, in the
\* directory when the run started) whose page is still in the page list of
\* the run is in the directory after the run, whether the page was fetched
\* or failed.
C16_KeepDiscovered ==
    RunCompleted =>
        \A k \in 1..Len(documentation_pages) :
            LET f == url_to_safe_filename(documentation_pages[k])
            IN (f \in DOMAIN prev /\ f \in DOMAIN disk0) => f \in DOMAIN disk

\* every key of the persisted manifest names a file whose SHA-256 is the
\* hash recorded for it, and the file fetched last holds what was fetched
HashesMatchDisk ==
    /\ \A f \in DOMAIN manifest.files :
          /\ f \in DOMAIN disk
          /\ manifest.files[f].hash = <<disk[f].header, disk[f].text>>
    /\ last.valid => disk[last.filename] = last.content

\* C17: after a run that was killed before it saved the manifest, the next
\* completed run leaves, for every key of the manifest, the file with the
\* content it fetched and its SHA-256 as the recorded hash.
C17_CrashRecovery == (RunCompleted /\ interrupted) => HashesMatchDisk

\* C18: after completed runs without a crash, for every entry of the
\* persisted manifest the recorded hash is the SHA-256 of the file of that
\* name in the references directory.
C18_HashDiskConsistency == (RunCompleted /\ ~ interrupted) => HashesMatchDisk

-----------------------------------------------------------------------------
(* Claims about one call of a fetcher, checked under SpecFetch *)

\* a response handled as a transport failure; a 429 with a usable or no
\* Retry-After header; a 200 with valid markdown
IsTransportFailure(resp) ==
    \/ resp.kind = "neterr"
    \/ (resp.kind = "http" /\ resp.status >= 400 /\ resp.status # 429)

IsRateLimit(resp) ==
    /\ resp.kind = "http"
    /\ resp.status = 429
    /\ (resp.retry_after.present => resp.retry_after.numeric)

IsValid200(resp) ==
    /\ resp.kind = "http"
    /\ resp.status = 200
    /\ resp.body \in {Markdown(c) : c \in Contents}

NumFailures(rs) == Cardinality({k \in 1..Len(rs) : IsTransportFailure(rs[k])})

\* C6: a 429 does not consume the retry budget: while the call runs, the
\* attempts used are the transport failures seen; after 429 responses alone
\* the call is still running; 429 responses followed by a valid 200 make it
\* return that content.
C6_RateLimitKeepsBudget ==
    LET rs == fc.responses
        n == Len(rs)
    IN /\ fc.status = "running" => fc.attempt = NumFailures(rs)
       /\ (fc.kind # "idle" /\ \A k \in 1..n : IsRateLimit(rs[k])) =>
             fc.status = "running"
       /\ ( /\ n > 0
            /\ \A k \in 1..(n - 1) : IsRateLimit(rs[k])
            /\ IsValid200(rs[n]) ) =>
             (fc.status = "returned" /\ fc.content.text = rs[n].body.id)

\* min(RETRY_DELAY * 2^n, MAX_RETRY_DELAY), n the failures that came before
DelayAfter(n) == IF 2 * (2 ^ n) < 30 THEN 2 * (2 ^ n) ELSE 30

\* C7: a 429 with Retry-After: s is followed by a sleep of at least s seconds
\* (60 without the header), and the backoff delay after a transport failure
\* depends on the number of earlier transport failures only.
C7_RateLimitWait ==
    \A k \in 1..Len(fc.sleeps) :
        LET sl == fc.sleeps[k]
            resp == fc.responses[sl.after]
        IN /\ sl.why = "rate" =>
                 /\ resp.status = 429
                 /\ sl.tenths >= 10 * (IF resp.retry_after.present
                                       THEN resp.retry_after.secs ELSE 60)
           /\ sl.why = "backoff" =>
                 sl.delay = DelayAfter(NumFailures(SubSeq(fc.responses, 1, sl.after - 1)))

\* C8: N < MAX_RETRIES transport failures and then a valid 200 make the call
\* return the content at request N + 1; the delay before retry k is
\* min(RETRY_DELAY * 2^(k-1), MAX_RETRY_DELAY), non-decreasing, the sleep
\* between 0.5 and 1.0 times it; the MAX_RETRIES-th failure raises, no sleep
\* after it.
C8_RetryBackoff ==
    LET rs == fc.responses
        n == Len(rs)
        N == NumFailures(rs)
    IN ( /\ fc.kind # "idle"
         /\ \A k \in 1..(n - 1) : IsTransportFailure(rs[k])
         /\ n > 0 => (IsTransportFailure(rs[n]) \/ IsValid200(rs[n])) ) =>
          /\ N <= 3
          /\ (n > 0 /\ IsValid200(rs[n])) =>
                /\ N < 3
                /\ n = N + 1
                /\ fc.status = "returned"
                /\ fc.content.text = rs[n].body.id
          /\ (N = n /\ N < 3) => fc.status = "running"
          /\ (N = n /\ N = 3) => fc.status = "raised"
          /\ Len(fc.sleeps) = (IF N < 3 THEN N ELSE 2)
          /\ \A k \in 1..Len(fc.sleeps) :
                /\ fc.sleeps[k].why = "backoff"
                /\ fc.sleeps[k].after = k
                /\ fc.sleeps[k].delay = DelayAfter(k - 1)
                /\ fc.sleeps[k].delay \in {2, 4}
                /\ 5 * fc.sleeps[k].delay <= fc.sleeps[k].tenths
                /\ fc.sleeps[k].tenths <= 10 * fc.sleeps[k].delay
          /\ \A k \in 1..(Len(fc.sleeps) - 1) :
                fc.sleeps[k].delay <= fc.sleeps[k + 1].delay

\* two transport failures, then a valid 200: the page is returned
C8_Witness ==
    /\ fc.kind = "page"
    /\ Len(fc.responses) = 3
    /\ IsTransportFailure(fc.responses[1])
    /\ IsTransportFailure(fc.responses[2])
    /\ IsValid200(fc.responses[3])
    /\ fc.status = "returned"
    /\ Len(fc.sleeps) = 2

\* C14: a call of a fetcher ends by returning content that passed validation
\* or by raising, and in no other way; once MAX_RETRIES requests were made
\* without a successful response it has raised.
C14_TerminalError ==
    LET rs == fc.responses
        n == Len(rs)
    IN /\ fc.status \in {"idle", "running", "returned", "raised"}
       /\ fc.status = "returned" =>
             /\ rs[n].kind = "http" /\ rs[n].status = 200
             /\ fc.kind = "page" => validate_markdown_content(rs[n].body)
             /\ fc.content.text = rs[n].body.id
       /\ (n = 3 /\ fc.status # "returned") => fc.status = "raised"

-----------------------------------------------------------------------------
(* Claims about main() in both modes, checked under SpecMain *)

\* a sequence of filenames in Python's sorted order, no filename twice
IsSorted(fs) == \A k \in 1..(Len(fs) - 1) : StrLess(fs[k], fs[k + 1])

\* a step in which main() calls validate_skill_md: a run with --validate, or
\* the end of a run in fetch mode that fetched something
ValidateModeStep == clock' # clock /\ args'.validate

FetchModeReport == pc = "save" /\ pc' = "exited" /\ successful # 0

\* C11: with R the filenames referenced by SKILL.md and F the set given to
\* validate_skill_md (the fetched files, or with --validate the files of the
\* references directory), the report has orphaned = R \ F and unreferenced =
\* F \ R, both without README.md and docs_manifest.json, both sorted; the two
\* are disjoint.
C11_Reconciliation ==
    [][ (ValidateModeStep \/ FetchModeReport) =>
          LET R == IF skill.exists
                   THEN {skill.items[k].name :
                           k \in {j \in 1..Len(skill.items) :
                                    /\ skill.items[j].kind = "ref"
                                    /\ skill.items[j].name[Len(skill.items[j].name)]
                                          \in {".md", ".json", "docs_manifest.json"}}}
                   ELSE {}
              F == IF args'.validate
                   THEN (DOMAIN disk) \cup (IF manifest.exists
                                            THEN {<<"docs_manifest.json">>} ELSE {})
                   ELSE fetched_files
              excluded == {<<"README", ".md">>, <<"docs_manifest.json">>}
              orphaned == validation'.orphaned
              unreferenced == validation'.unreferenced
          IN /\ Range(orphaned) = (R \ F) \ excluded
             /\ Range(unreferenced) = (F \ R) \ excluded
             /\ IsSorted(orphaned)
             /\ IsSorted(unreferenced)
             /\ Range(orphaned) \cap Range(unreferenced) = {}
             /\ (Range(orphaned) \cup Range(unreferenced)) \cap excluded = {}
      ]_vars

\* SKILL.md references overview.md, b.md and README.md; overview.md and
\* changelog.md were fetched: b.md is orphaned, changelog.md unreferenced
C11_Witness ==
    /\ pc = "exited"
    /\ ~ args.validate
    /\ fetched_files = {<<"overview", ".md">>, <<"changelog", ".md">>}
    /\ validation = [orphaned |-> << <<"b", ".md">> >>,
                     unreferenced |-> << <<"changelog", ".md">> >>]

\* C12: a run with --validate makes no request (no sitemap request, no
\* content request) and leaves the references directory and the manifest as
\* they were; in both modes SKILL.md changes only in the reconciliation, and
\* only when --update-skill was given and the unreferenced list is not empty.
C12_ModeFrame ==
    [][ /\ ValidateModeStep =>
              /\ disk' = disk
              /\ manifest' = manifest
              /\ pc' = "exited"
              /\ discovery'.cands = <<>>
              /\ discovery'.enum.kind = "none"
              /\ attempted' = <<>>
              /\ results' = <<>>
        /\ skill' # skill =>
              /\ ValidateModeStep \/ FetchModeReport
              /\ args'.update_skill
              /\ validation'.unreferenced # <<>>
      ]_vars

\* a run with --validate --update-skill over a directory left by a fetch: the
\* unreferenced file is now referenced by SKILL.md
C12_Witness ==
    /\ pc = "exited"
    /\ args.validate
    /\ args.update_skill
    /\ DOMAIN disk # {}
    /\ manifest.exists
    /\ validation.unreferenced # <<>>
    /\ \E k \in 1..Len(skill.items) : skill.items[k] = Ref(validation.unreferenced[1])

-----------------------------------------------------------------------------
(* Claims about url_to_safe_filename, checked under SpecFilename *)

\* the recognized prefixes a path starts with
LeadingPrefixes(path) ==
    {q \in { <<"/", "docs", "/", "en", "/">>,
             <<"/", "en", "/", "docs", "/", "claude-code", "/">>,
             <<"/", "docs", "/", "claude-code", "/">>,
             <<"/", "claude-code", "/">> } :
        Len(q) <= Len(path) /\ SubSeq(path, 1, Len(q)) = q}

\* rest with every "/" replaced by "__", and .md added unless it ends in .md
Flattened(rest) ==
    LET r == [k \in 1..Len(rest) |-> IF rest[k] = "/" THEN "__" ELSE rest[k]]
    IN IF r # <<>> /\ r[Len(r)] = ".md" THEN r ELSE r \o <<".md">>

\* C13: the filename depends on the path only, ends in .md and holds no "/";
\* for a path that starts with a recognized prefix it is the rest of the
\* path, the prefix stripped, with every "/" replaced by "__".
C13_FilenameDerivation ==
    fn.done =>
        /\ fn.name = url_to_safe_filename(fn.path)
        /\ fn.name # <<>> /\ fn.name[Len(fn.name)] = ".md"
        /\ \A k \in 1..Len(fn.name) : fn.name[k] # "/"
        /\ \A q \in LeadingPrefixes(fn.path) :
              fn.name = Flattened(SubSeq(fn.path, Len(q) + 1, Len(fn.path)))

-----------------------------------------------------------------------------
(* Claims about the requests of a run, checked under SpecTrace *)

\* a 200 response whose body validate_markdown_content rejects: empty or
\* HTML, shorter than 50 characters stripped, fewer than 3 markdown lines
InvalidBody200(resp) ==
    /\ resp.kind = "http"
    /\ resp.status = 200
    /\ \/ resp.body.len = 0
       \/ resp.body.html
       \/ resp.body.slen < 50
       \/ resp.body.ind < 3

\* C15: when the response to a page request is a 200 whose body fails
\* validation, the call ends at once, whatever the attempt: no backoff sleep,
\* the next request is for the next page or the changelog; the page is
\* counted and listed as failed, no file is written and no manifest entry
\* made.
C15_ValidationNotRetried ==
    [][ ( /\ hist'.requests = hist.requests + 1
          /\ hist'.call = "page"
          /\ InvalidBody200(hist'.resp) ) =>
            /\ hist'.att = attempt
            /\ hist'.backoffs = (IF attempt = 0 THEN 0 ELSE hist.backoffs)
            /\ attempt' = 0
            /\ i' = i + 1
            /\ pc' = (IF i < Len(documentation_pages) THEN "pages" ELSE "changelog")
            /\ failed' = failed + 1
            /\ failed_pages' = Append(failed_pages, documentation_pages[i])
            /\ results' = Append(results, [kind |-> "page",
                                           page |-> documentation_pages[i],
                                           ok |-> FALSE])
            /\ disk' = disk
            /\ writes' = writes
            /\ new_manifest' = new_manifest
            /\ fetched_files' = fetched_files
            /\ successful' = successful
      ]_vars

\* a body failed validation at the second attempt of a page, one attempt left
C15_Witness ==
    /\ hist.call = "page"
    /\ hist.att = 1
    /\ hist.call_requests = 2
    /\ InvalidBody200(hist.resp)
    /\ attempt = 0
    /\ failed_pages # <<>>
    /\ failed_pages[Len(failed_pages)] = documentation_pages[i - 1]

\* C19: a call of a fetcher makes at most MAX_RETRIES (3) requests and at
\* most MAX_RETRIES - 1 backoff sleeps; a run over n pages makes at most
\* 3 * (n + 1) content requests.  The run terminates: in the page loop and
\* the changelog fetch a step is always possible and every step is one more
\* request, the cleanup and the manifest save follow.
C19_BoundedAttempts ==
    /\ [] ( /\ hist.call_requests <= 3
            /\ hist.backoffs <= 2
            /\ attempt < 3
            /\ hist.requests <= 3 * (Len(results) + (IF attempt > 0 THEN 1 ELSE 0))
            /\ Len(results) <= Len(documentation_pages) + 1
            /\ pc = "pages" => ENABLED FetchPageStep
            /\ pc = "changelog" => ENABLED FetchChangelogStep
            /\ pc = "cleanup" => ENABLED CleanupOldFiles
            /\ pc = "save" => ENABLED SaveManifest
            /\ RunCompleted =>
                  /\ hist.requests <= 3 * (Len(documentation_pages) + 1)
                  /\ manifest.exists
                  /\ manifest.last_updated = clock )
    /\ [][ /\ pc \in {"pages", "changelog"} =>
                /\ hist'.requests = hist.requests + 1
                /\ hist'.call_requests = attempt + 1
                /\ pc' \in {"pages", "changelog", "cleanup"}
           /\ pc = "cleanup" => pc' = "save"
           /\ pc = "save" => pc' = "exited"
         ]_vars

\* every call of a completed run used its three requests, the last of them
\* after two backoff sleeps
C19_Witness ==
    /\ RunCompleted
    /\ hist.requests = 3 * (Len(documentation_pages) + 1)
    /\ hist.call_requests = 3
    /\ hist.backoffs = 2

\* the bullets of SKILL.md that name the file f
Bullets(doc, f) ==
    {k \in 1..Len(doc.items) : doc.items[k] = Ref(f)}

Headers(doc) ==
    {k \in 1..Len(doc.items) : doc.items[k].kind = "header"}

\* the last pass of main() with --update-skill appended the unreferenced
\* files to SKILL.md
UpdateAppended ==
    /\ pc = "exited"
    /\ args.update_skill
    /\ validation.unreferenced # <<>>
    /\ exit_code = 0

\* C21: when a pass has appended the unreferenced files to SKILL.md, the next
\* pass over the same files finds no unreferenced file and leaves SKILL.md as
\* it is, with one bullet for each of the files appended and at most one
\* Uncategorized header.
C21_UpdateIdempotence ==
    [][ (UpdateAppended /\ args'.update_skill /\ ExistingFiles' = ExistingFiles) =>
            /\ validation'.unreferenced = <<>>
            /\ skill' = skill
            /\ \A k \in 1..Len(validation.unreferenced) :
                  Cardinality(Bullets(skill', validation.unreferenced[k])) = 1
            /\ Cardinality(Headers(skill')) <= 1
      ]_vars

====
